---- MODULE Spec2Model ----
(***************************************************************************)
(* genstatetm: a compiler from a state machine description to Go source.   *)
(* The model covers compile's validation of a description and the          *)
(* behaviour of the code compile emits for it: the generated State,        *)
(* SetState and Event methods, run by goroutines that share one machine    *)
(* guarded by a sync.RWMutex.                                              *)
(***************************************************************************)
EXTENDS Naturals, Sequences, FiniteSets, TLC

\* ------------------------------------------------------------------ bounds

\* Largest number of transitions in a description (summed over its states).
MaxTrans == 1

\* Number of goroutines that may use one machine.
NumThreads == 2

Threads == 1..NumThreads

\* Names a description may use for its states and a name it never declares.
StateNames == {"a", "b"}
Undeclared == "zz"

\* Event names: the ones a description may register, all of them dispatchable.
EventNames == {"x", "y"}

\* ------------------------------------------------------------ description

\* type Transition struct { Event, To, Action, Condition string }
Transition == [Event : EventNames,
               To : StateNames \cup {"", Undeclared},
               Action : {"", "act"},
               Condition : {"", "cond"}]

\* []*Transition of at most n entries (a state registers at most two here).
TransitionLists(n) ==
    {<<>>}
    \cup (IF n >= 1 THEN {<<tr>> : tr \in Transition} ELSE {})
    \cup (IF n >= 2 THEN {<<t1, t2>> : t1 \in Transition, t2 \in Transition} ELSE {})

\* The entry action name a state may carry (State.On).
OnNames(n) == {"", "on_" \o n}

\* type State struct { Name, On string; Transitions []*Transition }
StateRec(n, on, trs) == [Name |-> n, On |-> on, Transitions |-> trs]

\* type Description struct { States []*State; Init string; ... }
\* The descriptions enumerated declare the states a and b, in this order, hold
\* at most MaxTrans transitions, and start in a or in a state never declared
\* (the names a and b are interchangeable).
RawDescription ==
    UNION {
        {[Init |-> i, States |-> <<StateRec("a", oa, ta), StateRec("b", ob, tb)>>] :
            i \in {"a", Undeclared},
            oa \in OnNames("a"), ob \in OnNames("b"),
            tb \in TransitionLists(MaxTrans - Len(ta))} :
        ta \in TransitionLists(MaxTrans)}

\* ---------------------------------------------------------------- compile

\* The first loop of compile panics on a second state of the same name.
DuplicateState(d) ==
    \E i, j \in 1..Len(d.States) : i < j /\ d.States[i].Name = d.States[j].Name

\* ... and on a second transition of one state for the same event.
DuplicateEvent(d) ==
    \E k \in 1..Len(d.States) :
        \E i, j \in 1..Len(d.States[k].Transitions) :
            i < j /\ d.States[k].Transitions[i].Event = d.States[k].Transitions[j].Event

\* The names statesMap has an entry for.
Declared(d) == {d.States[k].Name : k \in 1..Len(d.States)}

\* statesMap[name], for a name statesMap has an entry for.
statesMap(d, n) == d.States[CHOOSE k \in 1..Len(d.States) : d.States[k].Name = n]

\* if statesMap[desc.Init] == nil { panic }
InitMissing(d) == d.Init \notin Declared(d)

\* A transition with a target has it looked up while its case is emitted.
TargetMissing(d) ==
    \E k \in 1..Len(d.States) :
        \E i \in 1..Len(d.States[k].Transitions) :
            /\ d.States[k].Transitions[i].To # ""
            /\ d.States[k].Transitions[i].To \notin Declared(d)

\* ------------------------------------------------------------------ camel

\* The bytes of the names the descriptions use. The name written eacute is
\* the one-letter name U+00E9, two bytes in UTF-8.
Bytes(n) ==
    CASE n = "" -> <<>>
      [] n = "a" -> <<97>>
      [] n = "A" -> <<65>>
      [] n = "b" -> <<98>>
      [] n = "x" -> <<120>>
      [] n = "X" -> <<88>>
      [] n = "y" -> <<121>>
      [] n = "zz" -> <<122, 122>>
      [] n = "eacute" -> <<195, 169>>

\* string(first), first a byte: the UTF-8 encoding of the code point of that
\* value.
Utf8(r) == IF r < 128 THEN <<r>> ELSE <<192 + (r \div 64), 128 + (r % 64)>>

\* strings.ToUpper on one code point below U+0100: a-z and the lower case
\* letters of Latin-1 that have their capital below U+0100.
ToUpperRune(r) ==
    IF r \in 97..122 THEN r - 32
    ELSE IF r \in (224..254) \ {247} THEN r - 32
    ELSE r

\* first := str[0] panics (index out of range) on the empty string.
CamelPanics(n) == Bytes(n) = <<>>

\* strings.ToUpper(string(first)) + str[1:]
camel(n) == Utf8(ToUpperRune(Bytes(n)[1])) \o Tail(Bytes(n))

\* The keys of eventsMap.
EventsOf(d) ==
    UNION {{d.States[k].Transitions[i].Event : i \in 1..Len(d.States[k].Transitions)} :
             k \in 1..Len(d.States)}

\* The constants are emitted with camel applied to every state name and
\* every event name.
EmptyName(d) == \E n \in Declared(d) \cup EventsOf(d) : CamelPanics(n)

\* compile returns (emits the whole machine) instead of panicking.
Compiles(d) ==
    /\ ~DuplicateState(d)
    /\ ~DuplicateEvent(d)
    /\ ~InitMissing(d)
    /\ ~EmptyName(d)
    /\ ~TargetMissing(d)

\* ------------------------------------------------- compile, in its order

\* What a run of compile ends with: one of its panics, or the emitted text.
Ok == "ok"
DiagDuplicateState == "Duplicate state"
DiagDuplicateEvent == "Can't have two transitions for the same event"
DiagInit == "Init state does not exist"
DiagTarget == "Target state in transition does not exist"
DiagIndex == "runtime error: index out of range"

\* for _, transition := range state.Transitions: transitionMap holds the
\* events met so far.
RECURSIVE TransitionLoop(_, _, _)
TransitionLoop(trs, i, transitionMap) ==
    IF i > Len(trs) THEN Ok
    ELSE IF trs[i].Event \in transitionMap THEN DiagDuplicateEvent
    ELSE TransitionLoop(trs, i + 1, transitionMap \cup {trs[i].Event})

\* A first loop whose transitionMap is made once, before the loop, and so
\* holds the events of the states before.
RECURSIVE FirstLoop_SharedEventMap(_, _, _)
FirstLoop_SharedEventMap(d, k, seen) ==
    IF k > Len(d.States) THEN Ok
    ELSE IF d.States[k].Name \in seen THEN DiagDuplicateState
    ELSE LET before == UNION {{d.States[j].Transitions[i].Event :
                                  i \in 1..Len(d.States[j].Transitions)} : j \in 1..(k - 1)}
             inner == TransitionLoop(d.States[k].Transitions, 1, before)
         IN  IF inner # Ok THEN inner
             ELSE FirstLoop_SharedEventMap(d, k + 1, seen \cup {d.States[k].Name})

\* for _, state := range desc.States: seen holds the keys of statesMap so
\* far; each state gets a fresh transitionMap.
RECURSIVE FirstLoop(_, _, _)
FirstLoop(d, k, seen) ==
    IF k > Len(d.States) THEN Ok
    ELSE IF d.States[k].Name \in seen THEN DiagDuplicateState
    ELSE LET inner == TransitionLoop(d.States[k].Transitions, 1, {})
         IN  IF inner # Ok THEN inner
             ELSE FirstLoop(d, k + 1, seen \cup {d.States[k].Name})

\* A compile that checks the initial state before it fills statesMap's
\* duplicates check.
CompileOutcome_InitFirst(d) ==
    IF InitMissing(d) THEN DiagInit
    ELSE IF FirstLoop(d, 1, {}) # Ok THEN FirstLoop(d, 1, {})
    ELSE IF EmptyName(d) THEN DiagIndex
    ELSE IF TargetMissing(d) THEN DiagTarget
    ELSE Ok

\* A compile that looks up the targets of the first state's transitions only.
CompileOutcome_FirstStateTargets(d) ==
    IF FirstLoop(d, 1, {}) # Ok THEN FirstLoop(d, 1, {})
    ELSE IF InitMissing(d) THEN DiagInit
    ELSE IF EmptyName(d) THEN DiagIndex
    ELSE IF \E i \in 1..Len(d.States[1].Transitions) :
               /\ d.States[1].Transitions[i].To # ""
               /\ d.States[1].Transitions[i].To \notin Declared(d)
         THEN DiagTarget
    ELSE Ok

\* compile: the first loop, the initial state, the constants (camel), then
\* the cases of Event with their target lookups. The first panic ends it.
CompileOutcome(d) ==
    IF FirstLoop(d, 1, {}) # Ok THEN FirstLoop(d, 1, {})
    ELSE IF InitMissing(d) THEN DiagInit
    ELSE IF EmptyName(d) THEN DiagIndex
    ELSE IF TargetMissing(d) THEN DiagTarget
    ELSE Ok

Descriptions == {d \in RawDescription : Compiles(d)}

\* ------------------------------------------------------ the machine's state

VARIABLES
    desc,   \* the description the machine was compiled from
    state,  \* sm.state
    mu,     \* sm.mu: the goroutine holding the write lock, those holding read locks
    pc,     \* where each goroutine stands in the method it runs
    call    \* each goroutine's running call: arguments, locals, result, trace

vars == <<desc, state, mu, pc, call>>

NoThread == 0

\* error values: nil, the inner switch's default, and what each callback may return
Nil == "nil"
ErrInvalid == "event not valid during state"
CondErr == "condition error"
ActErr == "action error"
OnErr == "on error"

NoTransition == [Event |-> "", To |-> "", Action |-> "", Condition |-> ""]

\* A goroutine that runs no method of the machine. outer holds the frames of
\* the calls this one was made from: empty unless a callback made the call.
NoCall == [op |-> "none", event |-> "", arg |-> "", invokeOn |-> FALSE,
           pre |-> "", found |-> FALSE, tr |-> NoTransition,
           log |-> <<>>, err |-> Nil, ret |-> "", outer |-> <<>>]

\* One entry of a call's trace: a callback invocation with the arguments it
\* received and what it returned, or (kind "commit") the assignment sm.state = to.
Step(kind, name, e, s, ok, err) ==
    [kind |-> kind, name |-> name, event |-> e, state |-> s, ok |-> ok, err |-> err]

\* func New<Name>(): state is desc.Init, the mutex is unlocked.
NewMachine(d, running) ==
    /\ desc = d
    /\ state = d.Init
    /\ mu = [w |-> NoThread, r |-> {}]
    /\ pc = [t \in Threads |-> IF t \in running THEN "idle" ELSE "absent"]
    /\ call = [t \in Threads |-> NoCall]

\* One goroutine uses the machine, compiled from any description.
Init == \E d \in Descriptions : NewMachine(d, {1})

\* ------------------------------------------------------------- sync.RWMutex

\* A Lock that waits for writers only.
CanLock_IgnoreReaders == mu.w = NoThread

\* sm.mu.Lock() returns once no goroutine holds the lock in either mode.
CanLock == mu.w = NoThread /\ mu.r = {}

\* Goroutines that called Lock and wait for it: a pending writer.
WriterWaiting == \E u \in Threads : pc[u] \in {"ev_lock", "ss_lock"}

\* Goroutines that called RLock and wait for it.
BlockedReaders == {u \in Threads : pc[u] = "st_rlock"}

\* sm.mu.RLock() returns at once when no goroutine holds the write lock or
\* waits for it; otherwise it waits for a writer's Unlock.
CanRLock == mu.w = NoThread /\ ~WriterWaiting

\* defer sm.mu.Unlock(), run as the method returns: the readers that waited
\* are let in before the next writer.
Unlock(t) == [mu EXCEPT !.w = NoThread, !.r = BlockedReaders]

\* Where the goroutines stand once t has unlocked and returned: the readers
\* that waited hold their read lock.
PcAfterUnlock(t) ==
    [u \in Threads |-> IF u = t THEN "idle"
                       ELSE IF pc[u] = "st_rlock" THEN "st_read"
                       ELSE pc[u]]

CallAfterUnlock(t) ==
    [u \in Threads |-> IF u = t THEN NoCall
                       ELSE IF pc[u] = "st_rlock" THEN [call[u] EXCEPT !.pre = state]
                       ELSE call[u]]

\* defer sm.mu.RUnlock(), run as the method returns
RUnlock(t) == [mu EXCEPT !.r = @ \ {t}]

\* -------------------------------------------------------------------- Event

\* The transition of state s a case of the inner switch is emitted for.
HasCase(d, s, e) ==
    /\ s \in Declared(d)
    /\ \E i \in 1..Len(statesMap(d, s).Transitions) : statesMap(d, s).Transitions[i].Event = e

CaseOf(d, s, e) ==
    LET trs == statesMap(d, s).Transitions
    IN  trs[CHOOSE i \in 1..Len(trs) : trs[i].Event = e]

\* A goroutine calls sm.Event(event).
CallEvent(t, e) ==
    /\ pc[t] = "idle"
    /\ pc' = [pc EXCEPT ![t] = "ev_lock"]
    /\ call' = [call EXCEPT ![t] = [NoCall EXCEPT !.op = "Event", !.event = e]]
    /\ UNCHANGED <<desc, state, mu>>

\* A Lock that the goroutine holding it may take again.
EventLock_Reentrant(t) ==
    /\ pc[t] = "ev_lock"
    /\ CanLock \/ mu.w = t
    /\ mu' = [mu EXCEPT !.w = t]
    /\ pc' = [pc EXCEPT ![t] = "ev_switch"]
    /\ call' = [call EXCEPT ![t].pre = state]
    /\ UNCHANGED <<desc, state>>

\* sm.mu.Lock()
EventLock(t) ==
    /\ pc[t] = "ev_lock"
    /\ CanLock
    /\ mu' = [mu EXCEPT !.w = t]
    /\ pc' = [pc EXCEPT ![t] = "ev_switch"]
    /\ call' = [call EXCEPT ![t].pre = state]
    /\ UNCHANGED <<desc, state>>

\* What the two nested switches do with (sm.state, event): no case for
\* sm.state leaves the outer switch and reaches the final return nil; a state's
\* inner switch has a default that returns the error.
SwitchOutcome(d, s, e) ==
    IF s \notin Declared(d) THEN "return_nil"
    ELSE IF ~HasCase(d, s, e) THEN "return_invalid"
    ELSE IF CaseOf(d, s, e).Condition # "" THEN "condition"
    ELSE "action"

\* switch sm.state { case ...: switch event { case ...: / default: } }
EventSwitch(t) ==
    /\ pc[t] = "ev_switch"
    /\ LET out == SwitchOutcome(desc, state, call[t].event)
       IN  \/ /\ out = "return_nil"
              /\ pc' = [pc EXCEPT ![t] = "ret"]
              /\ call' = [call EXCEPT ![t].err = Nil]
           \/ /\ out = "return_invalid"
              /\ pc' = [pc EXCEPT ![t] = "ret"]
              /\ call' = [call EXCEPT ![t].err = ErrInvalid]
           \/ /\ out = "condition"
              /\ pc' = [pc EXCEPT ![t] = "ev_cond"]
              /\ call' = [call EXCEPT ![t].found = TRUE,
                                      ![t].tr = CaseOf(desc, state, call[t].event)]
           \/ /\ out = "action"
              /\ pc' = [pc EXCEPT ![t] = "ev_action"]
              /\ call' = [call EXCEPT ![t].found = TRUE,
                                      ![t].tr = CaseOf(desc, state, call[t].event)]
    /\ UNCHANGED <<desc, state, mu>>

\* A condition wrapper that runs the action whenever no error came back.
AfterCondition_IgnoreOk(ok, err) ==
    IF err # Nil THEN "ret" ELSE "ev_action"

\* A condition wrapper that looks at ok before it looks at err.
AfterCondition_OkFirst(ok, err) ==
    IF ok THEN "ev_action" ELSE "ret"

\* Where the case goes once the condition returned (ok, err).
AfterCondition(ok, err) ==
    IF err # Nil THEN "ret"
    ELSE IF ok THEN "ev_action"
    ELSE "ret"

\* if ok, err := Condition(event, sm.state); true {
\*     if err != nil { return err }
\*     if ok { ... }}
EventCond(t, ok, err) ==
    /\ pc[t] = "ev_cond"
    /\ pc' = [pc EXCEPT ![t] = AfterCondition(ok, err)]
    /\ call' = [call EXCEPT
                  ![t].log = Append(@, Step("condition", call[t].tr.Condition,
                                            call[t].event, state, ok, err)),
                  ![t].err = err]
    /\ UNCHANGED <<desc, state, mu>>

\* An action call whose error does not end the case.
EventAction_IgnoreErr(t, err) ==
    /\ pc[t] = "ev_action"
    /\ IF call[t].tr.Action = ""
       THEN /\ err = Nil
            /\ UNCHANGED call
       ELSE call' = [call EXCEPT
                       ![t].log = Append(@, Step("action", call[t].tr.Action,
                                                 call[t].event, state, TRUE, err)),
                       ![t].err = err]
    /\ pc' = [pc EXCEPT ![t] = "ev_commit"]
    /\ UNCHANGED <<desc, state, mu>>

\* if err := Action(event, sm.state); err != nil { return err }
\* (no such statement is emitted for a transition without an action)
EventAction(t, err) ==
    /\ pc[t] = "ev_action"
    /\ IF call[t].tr.Action = ""
       THEN /\ err = Nil
            /\ pc' = [pc EXCEPT ![t] = "ev_commit"]
            /\ UNCHANGED call
       ELSE /\ pc' = [pc EXCEPT ![t] = IF err # Nil THEN "ret" ELSE "ev_commit"]
            /\ call' = [call EXCEPT
                          ![t].log = Append(@, Step("action", call[t].tr.Action,
                                                    call[t].event, state, TRUE, err)),
                          ![t].err = err]
    /\ UNCHANGED <<desc, state, mu>>

\* A commit that treats a transition without a target as one into the
\* current state.
EventCommit_EmptyIsSelf(t) ==
    /\ pc[t] = "ev_commit"
    /\ LET to == IF call[t].tr.To = "" THEN state ELSE call[t].tr.To
       IN  /\ state' = to
           /\ call' = [call EXCEPT
                         ![t].tr.To = to,
                         ![t].log = IF call[t].tr.To = "" THEN @
                                    ELSE Append(@, Step("commit", "", call[t].event,
                                                        to, TRUE, Nil))]
    /\ pc' = [pc EXCEPT ![t] = "ev_entry"]
    /\ UNCHANGED <<desc, mu>>

\* A commit emitted for every transition, with or without a target.
EventCommit_AlwaysAssign(t) ==
    /\ pc[t] = "ev_commit"
    /\ state' = call[t].tr.To
    /\ pc' = [pc EXCEPT ![t] = IF call[t].tr.To = "" THEN "ret" ELSE "ev_entry"]
    /\ call' = [call EXCEPT
                  ![t].log = Append(@, Step("commit", "", call[t].event,
                                            call[t].tr.To, TRUE, Nil))]
    /\ UNCHANGED <<desc, mu>>

\* sm.state = to, emitted only for a transition with a target
EventCommit(t) ==
    /\ pc[t] = "ev_commit"
    /\ IF call[t].tr.To = ""
       THEN /\ pc' = [pc EXCEPT ![t] = "ret"]
            /\ UNCHANGED <<state, call>>
       ELSE /\ state' = call[t].tr.To
            /\ pc' = [pc EXCEPT ![t] = "ev_entry"]
            /\ call' = [call EXCEPT
                          ![t].log = Append(@, Step("commit", "", call[t].event,
                                                    call[t].tr.To, TRUE, Nil))]
    /\ UNCHANGED <<desc, mu>>

\* An entry action call that undoes the assignment when the callback fails.
EventEntry_Rollback(t, err) ==
    /\ pc[t] = "ev_entry"
    /\ IF statesMap(desc, call[t].tr.To).On = ""
       THEN /\ err = Nil
            /\ UNCHANGED <<call, state>>
       ELSE /\ call' = [call EXCEPT
                          ![t].log = Append(@, Step("on", statesMap(desc, call[t].tr.To).On,
                                                    call[t].event, state, TRUE, err)),
                          ![t].err = err]
            /\ state' = IF err # Nil THEN call[t].pre ELSE state
    /\ pc' = [pc EXCEPT ![t] = "ret"]
    /\ UNCHANGED <<desc, mu>>

\* An entry action call that passes the state the transition left.
EventEntry_SourceState(t, err) ==
    /\ pc[t] = "ev_entry"
    /\ IF statesMap(desc, call[t].tr.To).On = ""
       THEN /\ err = Nil
            /\ UNCHANGED call
       ELSE call' = [call EXCEPT
                       ![t].log = Append(@, Step("on", statesMap(desc, call[t].tr.To).On,
                                                 call[t].event, call[t].pre, TRUE, err)),
                       ![t].err = err]
    /\ pc' = [pc EXCEPT ![t] = "ret"]
    /\ UNCHANGED <<desc, state, mu>>

\* An entry action call left out when the target is the source state.
EventEntry_SkipSelf(t, err) ==
    /\ pc[t] = "ev_entry"
    /\ IF statesMap(desc, call[t].tr.To).On = "" \/ call[t].tr.To = call[t].pre
       THEN /\ err = Nil
            /\ UNCHANGED call
       ELSE call' = [call EXCEPT
                       ![t].log = Append(@, Step("on", statesMap(desc, call[t].tr.To).On,
                                                 call[t].event, state, TRUE, err)),
                       ![t].err = err]
    /\ pc' = [pc EXCEPT ![t] = "ret"]
    /\ UNCHANGED <<desc, state, mu>>

\* if err := On(event, sm.state); err != nil { return err }
\* emitted after the assignment when the target state has an On
EventEntry(t, err) ==
    /\ pc[t] = "ev_entry"
    /\ IF statesMap(desc, call[t].tr.To).On = ""
       THEN /\ err = Nil
            /\ UNCHANGED call
       ELSE call' = [call EXCEPT
                       ![t].log = Append(@, Step("on", statesMap(desc, call[t].tr.To).On,
                                                 call[t].event, state, TRUE, err)),
                       ![t].err = err]
    /\ pc' = [pc EXCEPT ![t] = "ret"]
    /\ UNCHANGED <<desc, state, mu>>

\* An Event that unlocks before its final return nil only, not where it
\* returns an error.
EventReturn_KeepLockOnError(t) ==
    /\ pc[t] = "ret"
    /\ call[t].op = "Event"
    /\ IF call[t].err = Nil
       THEN /\ mu' = Unlock(t)
            /\ pc' = PcAfterUnlock(t)
            /\ call' = CallAfterUnlock(t)
       ELSE /\ pc' = [pc EXCEPT ![t] = "idle"]
            /\ call' = [call EXCEPT ![t] = NoCall]
            /\ UNCHANGED mu
    /\ UNCHANGED <<desc, state>>

\* The method returns: the deferred sm.mu.Unlock() runs and the caller has
\* the result.
EventReturn(t) ==
    /\ pc[t] = "ret"
    /\ call[t].op = "Event"
    /\ mu' = Unlock(t)
    /\ pc' = PcAfterUnlock(t)
    /\ call' = CallAfterUnlock(t)
    /\ UNCHANGED <<desc, state>>

\* ----------------------------------------------------------------- SetState

\* A goroutine calls sm.SetState(state, event, invokeOn); State is a string
\* type, so the argument need not be a declared state.
CallSetState(t, s, e, invokeOn) ==
    /\ pc[t] = "idle"
    /\ pc' = [pc EXCEPT ![t] = "ss_lock"]
    /\ call' = [call EXCEPT ![t] = [NoCall EXCEPT !.op = "SetState", !.arg = s,
                                                  !.event = e, !.invokeOn = invokeOn]]
    /\ UNCHANGED <<desc, state, mu>>

\* sm.mu.Lock()
SetStateLock(t) ==
    /\ pc[t] = "ss_lock"
    /\ CanLock
    /\ mu' = [mu EXCEPT !.w = t]
    /\ pc' = [pc EXCEPT ![t] = "ss_assign"]
    /\ call' = [call EXCEPT ![t].pre = state]
    /\ UNCHANGED <<desc, state>>

\* The switch in SetState has a case for exactly the states with an On.
HasOnCase(d, s) == s \in Declared(d) /\ statesMap(d, s).On # ""

\* A SetState that enters the switch whatever invokeOn is.
SetStateAssign_AlwaysInvoke(t) ==
    /\ pc[t] = "ss_assign"
    /\ state' = call[t].arg
    /\ pc' = [pc EXCEPT ![t] = IF HasOnCase(desc, call[t].arg) THEN "ss_entry" ELSE "ret"]
    /\ UNCHANGED <<desc, mu, call>>

\* sm.state = state; if invokeOn { switch state {
SetStateAssign(t) ==
    /\ pc[t] = "ss_assign"
    /\ state' = call[t].arg
    /\ pc' = [pc EXCEPT ![t] = IF call[t].invokeOn /\ HasOnCase(desc, call[t].arg)
                               THEN "ss_entry" ELSE "ret"]
    /\ UNCHANGED <<desc, mu, call>>

\* case name: if err := On(event, sm.state); err != nil { return err }
SetStateEntry(t, err) ==
    /\ pc[t] = "ss_entry"
    /\ call' = [call EXCEPT
                  ![t].log = Append(@, Step("on", statesMap(desc, call[t].arg).On,
                                            call[t].event, state, TRUE, err)),
                  ![t].err = err]
    /\ pc' = [pc EXCEPT ![t] = "ret"]
    /\ UNCHANGED <<desc, state, mu>>

\* The method returns: the deferred sm.mu.Unlock() runs.
SetStateReturn(t) ==
    /\ pc[t] = "ret"
    /\ call[t].op = "SetState"
    /\ mu' = Unlock(t)
    /\ pc' = PcAfterUnlock(t)
    /\ call' = CallAfterUnlock(t)
    /\ UNCHANGED <<desc, state>>

\* -------------------------------------------------------------------- State

\* A goroutine calls sm.State().
CallState(t) ==
    /\ pc[t] = "idle"
    /\ pc' = [pc EXCEPT ![t] = "st_rlock"]
    /\ call' = [call EXCEPT ![t] = [NoCall EXCEPT !.op = "State"]]
    /\ UNCHANGED <<desc, state, mu>>

\* sm.mu.RLock()
StateRLock(t) ==
    /\ pc[t] = "st_rlock"
    /\ CanRLock
    /\ mu' = [mu EXCEPT !.r = @ \cup {t}]
    /\ pc' = [pc EXCEPT ![t] = "st_read"]
    /\ call' = [call EXCEPT ![t].pre = state]
    /\ UNCHANGED <<desc, state>>

\* return sm.state: the result is evaluated, the deferred RUnlock is still to run
StateRead(t) ==
    /\ pc[t] = "st_read"
    /\ call' = [call EXCEPT ![t].ret = state]
    /\ pc' = [pc EXCEPT ![t] = "st_ret"]
    /\ UNCHANGED <<desc, state, mu>>

\* The method returns: the deferred sm.mu.RUnlock() runs.
StateReturn(t) ==
    /\ pc[t] = "st_ret"
    /\ mu' = RUnlock(t)
    /\ pc' = [pc EXCEPT ![t] = "idle"]
    /\ call' = [call EXCEPT ![t] = NoCall]
    /\ UNCHANGED <<desc, state>>

\* ------------------------------------------------- compile and construct

\* The most transitions a description handed to compile holds.
MaxCompileTrans == 2

\* Names handed to compile: lower and upper case of one letter, the empty
\* name, a name that starts with a letter outside ASCII.
CompileStateNames == {"a", "A", "", "eacute"}
CompileEventNames == {"x", "X", ""}

\* type Transition struct: no target, a declared one, one never declared.
CompileTransition == [Event : CompileEventNames,
                      To : {"", "a", Undeclared},
                      Action : {""},
                      Condition : {""}]

\* []*Transition of at most n entries.
RECURSIVE CompileTransitionLists(_)
CompileTransitionLists(n) ==
    IF n <= 0 THEN {<<>>}
    ELSE CompileTransitionLists(n - 1)
         \cup {Append(l, tr) : l \in {s \in CompileTransitionLists(n - 1) : Len(s) = n - 1},
                                tr \in CompileTransition}

\* type Description struct { States; Init; Iface }
CompileDescription(i, f, states) == [Init |-> i, Iface |-> f, States |-> states]

\* A description is handed to compile; no machine exists yet. It has one or
\* two states and at most MaxCompileTrans transitions in all, with or without
\* an interface, and its initial state is a or a name never declared.
InitCompile ==
    /\ \E i \in {"a", Undeclared}, f \in {"", "I"}, n1 \in CompileStateNames,
          t1 \in CompileTransitionLists(MaxCompileTrans) :
            \/ desc = CompileDescription(i, f, <<StateRec(n1, "", t1)>>)
            \/ \E n2 \in CompileStateNames,
                  t2 \in CompileTransitionLists(MaxCompileTrans - Len(t1)) :
                    desc = CompileDescription(i, f, <<StateRec(n1, "", t1), StateRec(n2, "", t2)>>)
    /\ state = ""
    /\ mu = [w |-> NoThread, r |-> {}]
    /\ pc = [t \in Threads |-> IF t = 1 THEN "compile" ELSE "absent"]
    /\ call = [t \in Threads |-> NoCall]

\* compile(desc, pkg, buf): panics, or returns with the text emitted.
Compile(t) ==
    /\ pc[t] = "compile"
    /\ pc' = [pc EXCEPT ![t] = IF CompileOutcome(desc) = Ok THEN "compiled" ELSE "panic"]
    /\ call' = [call EXCEPT ![t] = [NoCall EXCEPT !.op = "compile", !.err = CompileOutcome(desc)]]
    /\ UNCHANGED <<desc, state, mu>>

\* A constructor that starts the machine in the first state declared.
New_FirstState(t) ==
    /\ pc[t] = "compiled"
    /\ state' = desc.States[1].Name
    /\ mu' = [w |-> NoThread, r |-> {}]
    /\ pc' = [pc EXCEPT ![t] = "idle"]
    /\ call' = [call EXCEPT ![t] = [NoCall EXCEPT !.op = "New"]]
    /\ UNCHANGED desc

\* func New<Name>() and func New<Name>(iface): both return
\* &Name{state: desc.Init, mu: &sync.RWMutex{}}, the second with iface set.
New(t) ==
    /\ pc[t] = "compiled"
    /\ state' = IF desc.Iface = "" THEN desc.Init ELSE desc.Init
    /\ mu' = [w |-> NoThread, r |-> {}]
    /\ pc' = [pc EXCEPT ![t] = "idle"]
    /\ call' = [call EXCEPT ![t] = [NoCall EXCEPT !.op = "New"]]
    /\ UNCHANGED desc

\* compile, the constructor, then calls of State().
NextCompile ==
    \E t \in Threads :
        \/ Compile(t)
        \/ New(t)
        \/ CallState(t)
        \/ StateRLock(t)
        \/ StateRead(t)
        \/ StateReturn(t)

SpecCompile == InitCompile /\ [][NextCompile]_vars

\* ------------------------------------------------------------ specification

\* What the callbacks may return.
ConditionErrs == {Nil, CondErr}
ActionErrs == {Nil, ActErr}
OnErrs == {Nil, OnErr}

\* The states a caller may pass to SetState.
SetStateArgs == StateNames \cup {Undeclared}

Next ==
    \E t \in Threads :
        \/ \E e \in EventNames : CallEvent(t, e)
        \/ EventLock(t)
        \/ EventSwitch(t)
        \/ \E ok \in BOOLEAN, err \in ConditionErrs : EventCond(t, ok, err)
        \/ \E err \in ActionErrs : EventAction(t, err)
        \/ EventCommit(t)
        \/ \E err \in OnErrs : EventEntry(t, err)
        \/ EventReturn(t)
        \/ \E s \in SetStateArgs, e \in EventNames, b \in BOOLEAN : CallSetState(t, s, e, b)
        \/ SetStateLock(t)
        \/ SetStateAssign(t)
        \/ \E err \in OnErrs : SetStateEntry(t, err)
        \/ SetStateReturn(t)
        \/ CallState(t)
        \/ StateRLock(t)
        \/ StateRead(t)
        \/ StateReturn(t)

\* ----------------------------------------------------- re-entrant callbacks

\* Goroutine t is at a callback call site of Event or SetState: the callback
\* is user code and runs on this goroutine, with the write lock held.
InCallback(t) ==
    \/ pc[t] = "ev_cond"
    \/ pc[t] = "ev_action" /\ call[t].tr.Action # ""
    \/ pc[t] = "ev_entry" /\ statesMap(desc, call[t].tr.To).On # ""
    \/ pc[t] = "ss_entry"

\* The frame the callback's call leaves behind.
Frame(t) == [pc |-> pc[t], call |-> call[t]]

\* The callback calls sm.Event(e) on the machine that invoked it.
ReenterEvent(t, e) ==
    /\ InCallback(t)
    /\ pc' = [pc EXCEPT ![t] = "ev_lock"]
    /\ call' = [call EXCEPT ![t] = [NoCall EXCEPT !.op = "Event", !.event = e,
                                                  !.outer = <<Frame(t)>>]]
    /\ UNCHANGED <<desc, state, mu>>

\* The callback calls sm.SetState(s, e, invokeOn).
ReenterSetState(t, s, e, invokeOn) ==
    /\ InCallback(t)
    /\ pc' = [pc EXCEPT ![t] = "ss_lock"]
    /\ call' = [call EXCEPT ![t] = [NoCall EXCEPT !.op = "SetState", !.arg = s,
                                                  !.event = e, !.invokeOn = invokeOn,
                                                  !.outer = <<Frame(t)>>]]
    /\ UNCHANGED <<desc, state, mu>>

\* The callback calls sm.State().
ReenterState(t) ==
    /\ InCallback(t)
    /\ pc' = [pc EXCEPT ![t] = "st_rlock"]
    /\ call' = [call EXCEPT ![t] = [NoCall EXCEPT !.op = "State",
                                                  !.outer = <<Frame(t)>>]]
    /\ UNCHANGED <<desc, state, mu>>

NextReentrant ==
    \/ Next
    \/ \E t \in Threads :
        \/ \E e \in EventNames : ReenterEvent(t, e)
        \/ \E s \in SetStateArgs, e \in EventNames, b \in BOOLEAN :
              ReenterSetState(t, s, e, b)
        \/ ReenterState(t)

\* One goroutine, every description.
Spec == Init /\ [][Next]_vars

\* The descriptions the goroutines of SpecConc share a machine of: both states
\* have an entry action, b has no transition, and the one transition of a
\* is a -x-> b with a condition and an action.
Full(d) ==
    /\ d.States[1].On # ""
    /\ d.States[2].On # ""
    /\ d.States[2].Transitions = <<>>
    /\ d.States[1].Transitions =
         <<[Event |-> "x", To |-> "b", Action |-> "act", Condition |-> "cond"]>>

InitConc == \E d \in {x \in Descriptions : Full(x)} : NewMachine(d, Threads)

\* NumThreads goroutines share one machine.
SpecConc == InitConc /\ [][Next]_vars

\* ------------------------------------------------------------------- claims

\* Goroutine t has run the body of the method op and is about to return:
\* call[t].err is what the caller receives and state is the state it leaves.
Returning(t, op) == pc[t] = "ret" /\ call[t].op = op

\* The entries of a call's trace of one kind.
Entries(t, kind) == {i \in 1..Len(call[t].log) : call[t].log[i].kind = kind}

Invoked(t) == {i \in 1..Len(call[t].log) : call[t].log[i].kind # "commit"}

\* C1: an Event call whose event has no transition registered for the state
\* it finds returns the "not valid" error, leaves the state as it was and
\* invokes no callback - in every state Event and SetState calls can lead to.
C1_InvalidEventFails ==
    \A t \in Threads :
        (Returning(t, "Event") /\ ~HasCase(desc, call[t].pre, call[t].event))
            => /\ call[t].err = ErrInvalid
               /\ state = call[t].pre
               /\ Invoked(t) = {}

\* The transition the description registers for the state and event the
\* call of goroutine t found (meaningful when Selected(t)).
Selected(t) == HasCase(desc, call[t].pre, call[t].event)
Sel(t) == CaseOf(desc, call[t].pre, call[t].event)

\* C2: when the target state's entry action returns an error, the machine is
\* in the target state as Event returns, and Event returns that error.
C2_EntryErrorNoRollback ==
    \A t \in Threads :
        Returning(t, "Event") =>
            \A i \in Entries(t, "on") :
                call[t].log[i].err # Nil
                    => /\ Selected(t)
                       /\ state = Sel(t).To
                       /\ call[t].err = call[t].log[i].err

\* C2's case: the entry action of a target other than the source failed.
C2_Witness ==
    \E t \in Threads :
        /\ Returning(t, "Event")
        /\ \E i \in Entries(t, "on") : call[t].log[i].err = OnErr
        /\ call[t].pre # state

\* C3: when the transition's action returns an error, the state is the one
\* before the call, Event returns that error, and no entry action runs.
C3_ActionErrorAborts ==
    \A t \in Threads :
        Returning(t, "Event") =>
            \A i \in Entries(t, "action") :
                call[t].log[i].err # Nil
                    => /\ state = call[t].pre
                       /\ call[t].err = call[t].log[i].err
                       /\ Entries(t, "on") = {}
                       /\ Entries(t, "commit") = {}

\* C3's case: the failed action belongs to a transition into another state
\* that has an entry action.
C3_Witness ==
    \E t \in Threads :
        /\ Returning(t, "Event")
        /\ \E i \in Entries(t, "action") : call[t].log[i].err = ActErr
        /\ Selected(t)
        /\ Sel(t).To \notin {"", call[t].pre}
        /\ statesMap(desc, Sel(t).To).On # ""

\* C4: when the condition returns false and no error, Event returns nil, the
\* state is unchanged, and neither the action nor an entry action runs.
C4_ConditionFalseNoEffect ==
    \A t \in Threads :
        Returning(t, "Event") =>
            \A i \in Entries(t, "condition") :
                (~call[t].log[i].ok /\ call[t].log[i].err = Nil)
                    => /\ call[t].err = Nil
                       /\ state = call[t].pre
                       /\ Invoked(t) = {i}
                       /\ Entries(t, "commit") = {}

\* C4's case: the transition whose condition was false has an action and a
\* target.
C4_Witness ==
    \E t \in Threads :
        /\ Returning(t, "Event")
        /\ \E i \in Entries(t, "condition") :
              ~call[t].log[i].ok /\ call[t].log[i].err = Nil
        /\ Selected(t)
        /\ Sel(t).Action # ""
        /\ Sel(t).To # ""

\* C5: when the condition returns an error, with either boolean, Event
\* returns that error, the state is unchanged, and neither the action nor an
\* entry action runs.
C5_ConditionErrorAborts ==
    \A t \in Threads :
        Returning(t, "Event") =>
            \A i \in Entries(t, "condition") :
                call[t].log[i].err # Nil
                    => /\ call[t].err = call[t].log[i].err
                       /\ state = call[t].pre
                       /\ Invoked(t) = {i}
                       /\ Entries(t, "commit") = {}

\* C5's case: the condition returned true together with an error, on a
\* transition with an action and a target.
C5_Witness ==
    \E t \in Threads :
        /\ Returning(t, "Event")
        /\ \E i \in Entries(t, "condition") :
              call[t].log[i].ok /\ call[t].log[i].err = CondErr
        /\ Selected(t)
        /\ Sel(t).Action # ""
        /\ Sel(t).To # ""

\* The place of each kind of step in a case of the inner switch.
Rank(kind) ==
    CASE kind = "condition" -> 1
      [] kind = "action" -> 2
      [] kind = "commit" -> 3
      [] kind = "on" -> 4

\* C6: at every point of an Event call, the steps taken so far are in the
\* order condition, action, commit, entry action, each at most once; the
\* condition and the action received the event and the source state, the
\* entry action the event and the committed target state.
C6_CallbackOrder ==
    \A t \in Threads :
        call[t].op = "Event" =>
            LET log == call[t].log
            IN  /\ \A i, j \in 1..Len(log) :
                       i < j => Rank(log[i].kind) < Rank(log[j].kind)
                /\ log # <<>> => Selected(t)
                /\ \A i \in 1..Len(log) :
                       /\ log[i].event = call[t].event
                       /\ log[i].kind = "condition" =>
                              /\ log[i].name = Sel(t).Condition
                              /\ log[i].name # ""
                              /\ log[i].state = call[t].pre
                       /\ log[i].kind = "action" =>
                              /\ log[i].name = Sel(t).Action
                              /\ log[i].name # ""
                              /\ log[i].state = call[t].pre
                       /\ log[i].kind = "commit" =>
                              /\ log[i].state = Sel(t).To
                              /\ log[i].state # ""
                       /\ log[i].kind = "on" =>
                              /\ log[i].name = statesMap(desc, Sel(t).To).On
                              /\ log[i].name # ""
                              /\ log[i].state = Sel(t).To
                              /\ state = Sel(t).To
                              /\ Entries(t, "commit") # {}

\* C6's case: a call that ran all four steps and moved to another state.
C6_Witness ==
    \E t \in Threads :
        /\ Returning(t, "Event")
        /\ Len(call[t].log) = 4
        /\ call[t].pre # state

\* The condition of the selected transition, if it has one, returned true
\* and no error.
ConditionPassed(t) ==
    \/ Sel(t).Condition = ""
    \/ \E i \in Entries(t, "condition") : call[t].log[i].ok /\ call[t].log[i].err = Nil

\* C7: a transition without a target whose condition (if any) is true has
\* its action (if any) invoked, leaves the state unchanged and invokes no
\* entry action, also when the current state has one.
C7_NoTargetNoEntry ==
    \A t \in Threads :
        (Returning(t, "Event") /\ Selected(t)) =>
            ((Sel(t).To = "" /\ ConditionPassed(t))
                => /\ (Sel(t).Action # "") <=> (Entries(t, "action") # {})
                   /\ state = call[t].pre
                   /\ Entries(t, "on") = {}
                   /\ Entries(t, "commit") = {})

\* C7's case: the current state has an entry action and the transition an
\* action, which ran.
C7_Witness ==
    \E t \in Threads :
        /\ Returning(t, "Event")
        /\ Selected(t)
        /\ Sel(t).To = ""
        /\ ConditionPassed(t)
        /\ Sel(t).Condition # ""
        /\ Entries(t, "action") # {}
        /\ statesMap(desc, call[t].pre).On # ""

\* C8: an Event call that committed a transition into a state S with an
\* entry action invoked that entry action exactly once, after the commit,
\* with the dispatched event and S - a self-transition included.
C8_EntryOncePerCommit ==
    \A t \in Threads :
        Returning(t, "Event") =>
            \A c \in Entries(t, "commit") :
                LET S == call[t].log[c].state
                IN  HasOnCase(desc, S)
                        => /\ Cardinality(Entries(t, "on")) = 1
                           /\ \A i \in Entries(t, "on") :
                                  /\ i > c
                                  /\ call[t].log[i].name = statesMap(desc, S).On
                                  /\ call[t].log[i].event = call[t].event
                                  /\ call[t].log[i].state = S
                           /\ state = S

\* C8's case: a self-transition of a state with an entry action.
C8_Witness ==
    \E t \in Threads :
        /\ Returning(t, "Event")
        /\ \E c \in Entries(t, "commit") :
              /\ call[t].log[c].state = call[t].pre
              /\ HasOnCase(desc, call[t].pre)
        /\ Entries(t, "on") # {}

\* C9: SetState(s, e, invokeOn) leaves the machine in s whatever the state
\* before and whatever e is; it invokes the entry action of s, with e and s,
\* exactly when invokeOn is true and s has one, and nothing else; it returns
\* that entry action's result, and nil when none ran.
C9_SetState ==
    \A t \in Threads :
        Returning(t, "SetState") =>
            /\ state = call[t].arg
            /\ call[t].log =
                  IF call[t].invokeOn /\ HasOnCase(desc, call[t].arg)
                  THEN <<Step("on", statesMap(desc, call[t].arg).On, call[t].event,
                              call[t].arg, TRUE, call[t].err)>>
                  ELSE <<>>
            /\ call[t].log = <<>> => call[t].err = Nil

\* C9's case: the entry action failed, the state before was another one and
\* had no transition for e.
C9_Witness ==
    \E t \in Threads :
        /\ Returning(t, "SetState")
        /\ call[t].log # <<>>
        /\ call[t].err = OnErr
        /\ call[t].pre # call[t].arg
        /\ ~HasCase(desc, call[t].pre, call[t].event)

\* Goroutine t is between the first statement after sm.mu.Lock() and the
\* return of Event or SetState.
Inside(t) ==
    pc[t] \in {"ev_switch", "ev_cond", "ev_action", "ev_commit", "ev_entry",
               "ss_assign", "ss_entry", "ret"}

\* Goroutine t is between sm.mu.RLock() and the return of State.
Reading(t) == pc[t] \in {"st_read", "st_ret"}

\* C10: a goroutine inside Event or SetState holds the write lock and is the
\* only one inside; a goroutine inside State holds a read lock, no goroutine
\* is inside Event or SetState then, the state is still what it was when
\* State began, and that is the value State returns.
C10_Locking ==
    \A t \in Threads :
        /\ Inside(t) =>
              /\ mu.w = t
              /\ mu.r = {}
              /\ \A u \in Threads \ {t} : ~Inside(u)
        /\ Reading(t) =>
              /\ t \in mu.r
              /\ mu.w = NoThread
              /\ \A u \in Threads : ~Inside(u)
              /\ state = call[t].pre
        /\ pc[t] = "st_ret" => call[t].ret = state

\* C10's case: a goroutine is inside Event, after the commit, while another
\* waits in State for the read lock.
C10_Witness ==
    \E t, u \in Threads :
        /\ pc[t] = "ev_entry"
        /\ state # call[t].pre
        /\ pc[u] = "st_rlock"


\* C12: Event returns the "not valid" error whenever the state it finds has
\* no transition registered: a declared state with an empty transition list,
\* and a state the description does not declare.
C12_NoTransitionsFails ==
    \A t \in Threads :
        (/\ Returning(t, "Event")
         /\ \/ call[t].pre \notin Declared(desc)
            \/ statesMap(desc, call[t].pre).Transitions = <<>>)
            => call[t].err = ErrInvalid

\* C19: a freshly constructed machine is in a declared state, and the only
\* step that takes the machine from a declared state to an undeclared one is
\* the assignment of a SetState whose argument is not a declared state: no
\* step of Event or State does.
C19_OnlySetStateLeavesDeclared ==
    /\ state \in Declared(desc)
    /\ [][(state \in Declared(desc) /\ state' \notin Declared(desc))
            => \E t \in Threads :
                  /\ pc[t] = "ss_assign"
                  /\ pc'[t] # "ss_assign"
                  /\ call[t].arg \notin Declared(desc)
                  /\ state' = call[t].arg]_vars

\* C19's case: an Event call committed a transition into another state, which
\* is a declared one.
C19_Witness ==
    \E t \in Threads :
        /\ Returning(t, "Event")
        /\ Entries(t, "commit") # {}
        /\ state # call[t].pre
        /\ state \in Declared(desc)
        /\ desc.Init \in Declared(desc)


\* ------------------------------------------- specifications of later claims

\* The goroutines of SpecConc, with callbacks that may call back into the
\* machine.
SpecReentrant == InitConc /\ [][NextReentrant]_vars

\* Goroutine t runs a call made by a callback of a call of its own.
Nested(t) == call[t].outer # <<>>

\* C11: once a callback has called Event, SetState or State on its own
\* machine, the goroutine holds the write lock and never takes another step:
\* the inner call never gets the lock, neither call returns, the lock is never
\* released and the state never changes again.
C11_ReentryDeadlocks ==
    [][\A t \in Threads :
          Nested(t) => /\ mu.w = t
                       /\ pc'[t] = pc[t]
                       /\ call'[t] = call[t]
                       /\ mu' = mu
                       /\ state' = state]_vars

\* C11's case: an entry action called Event, and another goroutine waits in
\* State for the read lock.
C11_Witness ==
    \E t, u \in Threads :
        /\ Nested(t)
        /\ pc[t] = "ev_lock"
        /\ call[t].outer[1].pc = "ev_entry"
        /\ pc[u] = "st_rlock"


\* The steps of goroutine t that take a lock of sm.mu.
Acquire(t) == EventLock(t) \/ SetStateLock(t) \/ StateRLock(t)

\* The steps of goroutine t inside a method, callbacks included.
Body(t) ==
    \/ EventSwitch(t)
    \/ \E ok \in BOOLEAN, err \in ConditionErrs : EventCond(t, ok, err)
    \/ \E err \in ActionErrs : EventAction(t, err)
    \/ EventCommit(t)
    \/ \E err \in OnErrs : EventEntry(t, err)
    \/ EventReturn(t)
    \/ SetStateAssign(t)
    \/ \E err \in OnErrs : SetStateEntry(t, err)
    \/ SetStateReturn(t)
    \/ StateRead(t)
    \/ StateReturn(t)

\* A goroutine inside a method keeps running and every callback returns; a
\* goroutine waiting for the mutex gets it if it is free again and again
\* (sync.Mutex hands the lock to a waiter that would starve). Callers need
\* not call.
Fairness == \A t \in Threads : WF_vars(Body(t)) /\ SF_vars(Acquire(t))

\* The goroutines of SpecConc, scheduled fairly, callbacks not re-entering.
SpecLive == InitConc /\ [][Next]_vars /\ Fairness

\* C20: every call of Event, SetState or State returns, and the goroutine
\* holds no lock of the machine then - whichever return path the call took,
\* so a call waiting behind one that failed returns too.
C20_CallsTerminate ==
    \A t \in Threads :
        (pc[t] # "idle") ~> (pc[t] = "idle" /\ mu.w # t /\ t \notin mu.r)

\* C20's case: an Event is about to return an error while another goroutine
\* waits in Event for the lock.
C20_Witness ==
    \E t, u \in Threads :
        /\ Returning(t, "Event")
        /\ call[t].err # Nil
        /\ pc[u] = "ev_lock"


\* ------------------------------------------------------------- construction

\* The constructor has returned and nothing was called since.
Constructed(t) == pc[t] = "idle" /\ call[t].op = "New"

\* C13: for every description that compiles, the machine the constructor
\* returns (with or without the interface parameter) is in the description's
\* initial state, that state is declared, no callback was invoked by the
\* construction, and State() of the machine returns the initial state.
C13_ConstructorYieldsInit ==
    \A t \in Threads :
        /\ Constructed(t) =>
              /\ state = desc.Init
              /\ \E k \in 1..Len(desc.States) : desc.States[k].Name = desc.Init
              /\ call[t].log = <<>>
              /\ mu = [w |-> NoThread, r |-> {}]
        /\ (pc[t] = "st_ret" /\ call[t].op = "State") => call[t].ret = desc.Init

\* State() has returned the initial state of a machine constructed with an
\* interface, whose initial state is not the first state declared.
C13_Witness ==
    \E t \in Threads :
        /\ pc[t] = "st_ret"
        /\ call[t].ret = desc.Init
        /\ "Iface" \in DOMAIN desc
        /\ desc.Iface # ""
        /\ desc.States[1].Name # desc.Init


\* --------------------------------------------------------------- validation

\* compile has ended, by a panic or by returning.
CompileDone(t) == call[t].op = "compile" /\ pc[t] \in {"compiled", "panic"}

\* Two transitions of two different states are on the same event.
SharedEvent(d) ==
    \E k1, k2 \in 1..Len(d.States) :
        /\ k1 # k2
        /\ \E i \in 1..Len(d.States[k1].Transitions), j \in 1..Len(d.States[k2].Transitions) :
              d.States[k1].Transitions[i].Event = d.States[k2].Transitions[j].Event

\* C14: compile panics with a duplicate diagnostic for every description in
\* which two states share a name and for every description in which one state
\* has two transitions on the same event; when neither is the case no
\* duplicate is reported, also when two states have transitions on the same
\* event, and such a description is compiled when it breaks no other rule.
C14_Duplicates ==
    \A t \in Threads :
        CompileDone(t) =>
            /\ (DuplicateState(desc) \/ DuplicateEvent(desc)) =>
                  /\ pc[t] = "panic"
                  /\ call[t].err \in {DiagDuplicateState, DiagDuplicateEvent}
            /\ (~DuplicateState(desc) /\ ~DuplicateEvent(desc)) =>
                  call[t].err \notin {DiagDuplicateState, DiagDuplicateEvent}
            /\ (/\ SharedEvent(desc)
                /\ ~DuplicateState(desc) /\ ~DuplicateEvent(desc)
                /\ ~InitMissing(desc) /\ ~TargetMissing(desc) /\ ~EmptyName(desc)) =>
                  pc[t] = "compiled"

\* A description whose two states both have a transition on the same event
\* was compiled.
C14_Witness ==
    \E t \in Threads :
        /\ CompileDone(t)
        /\ pc[t] = "compiled"
        /\ SharedEvent(desc)

\* C15: compile panics for every description whose initial state is not
\* declared, and for every description in which a transition of any state
\* has a target that is not empty and not declared.
C15_MissingInitOrTarget ==
    \A t \in Threads :
        CompileDone(t) =>
            /\ (\A k \in 1..Len(desc.States) : desc.States[k].Name # desc.Init) =>
                  pc[t] = "panic"
            /\ (\E k \in 1..Len(desc.States) : \E i \in 1..Len(desc.States[k].Transitions) :
                   /\ desc.States[k].Transitions[i].To # ""
                   /\ \A j \in 1..Len(desc.States) :
                         desc.States[j].Name # desc.States[k].Transitions[i].To) =>
                  pc[t] = "panic"

\* compile panicked over the target of a transition of the second state, in
\* a description whose first state has no undeclared target.
C15_Witness ==
    \E t \in Threads :
        /\ CompileDone(t)
        /\ call[t].err = DiagTarget
        /\ Len(desc.States) = 2
        /\ \A i \in 1..Len(desc.States[1].Transitions) :
              desc.States[1].Transitions[i].To \in {"", "a"}


\* The classes of error a description holds.
Present(d) ==
    (IF DuplicateState(d) THEN {DiagDuplicateState} ELSE {})
    \cup (IF DuplicateEvent(d) THEN {DiagDuplicateEvent} ELSE {})
    \cup (IF InitMissing(d) THEN {DiagInit} ELSE {})
    \cup (IF TargetMissing(d) THEN {DiagTarget} ELSE {})

\* What a run of compile reported: the diagnostic of its panic.
Reported(t) == IF pc[t] = "panic" THEN {call[t].err} ELSE {}

\* C16 as stated: validation is exhaustive, every class of error the
\* description holds is reported.
C16_ReportsEveryClass ==
    \A t \in Threads : CompileDone(t) => Present(desc) \subseteq Reported(t)

\* C16: compile stops at its first panic and reports that one alone. The
\* duplicates come first (the loop over the states), then the initial state,
\* then the derivation of the constant names, then the targets: a diagnostic
\* is reported only when no check before its own has failed, and its own has.
C16_ReportsFirstOnly ==
    \A t \in Threads :
        CompileDone(t) =>
            /\ pc[t] = "compiled" <=> (Present(desc) = {} /\ ~EmptyName(desc))
            /\ call[t].err = DiagDuplicateState => DuplicateState(desc)
            /\ call[t].err = DiagDuplicateEvent => DuplicateEvent(desc)
            /\ call[t].err = DiagInit =>
                  /\ InitMissing(desc)
                  /\ ~DuplicateState(desc) /\ ~DuplicateEvent(desc)
            /\ call[t].err = DiagIndex =>
                  /\ EmptyName(desc)
                  /\ ~DuplicateState(desc) /\ ~DuplicateEvent(desc) /\ ~InitMissing(desc)
            /\ call[t].err = DiagTarget =>
                  /\ TargetMissing(desc)
                  /\ ~DuplicateState(desc) /\ ~DuplicateEvent(desc) /\ ~InitMissing(desc)
                  /\ ~EmptyName(desc)

\* compile reported a duplicate state for a description that also has a
\* missing initial state and a missing target.
C16_Witness ==
    \E t \in Threads :
        /\ CompileDone(t)
        /\ call[t].err = DiagDuplicateState
        /\ InitMissing(desc)
        /\ TargetMissing(desc)


\* ------------------------------------------------------------- identifiers

\* C17: in every description compile accepts, two different state names
\* derive two different constant identifiers, and so do two different event
\* names; a description where two names derive the same one is rejected.
C17_DistinctIdentifiers ==
    \A t \in Threads :
        (CompileDone(t) /\ pc[t] = "compiled") =>
            /\ \A n, m \in {desc.States[k].Name : k \in 1..Len(desc.States)} :
                  n # m => camel(n) # camel(m)
            /\ \A n, m \in EventsOf(desc) :
                  n # m => camel(n) # camel(m)

\* C18: the derivation of a constant identifier is total: no run of compile
\* ends in the derivation's failure, whatever the names, the empty one and the
\* ones that start outside ASCII included.
C18_DerivationTotal ==
    \A t \in Threads :
        CompileDone(t) =>
            /\ call[t].err # DiagIndex
            /\ \A n \in {desc.States[k].Name : k \in 1..Len(desc.States)} \cup EventsOf(desc) :
                  call[t].err \in {Ok, DiagTarget} => Len(Bytes(n)) > 0

====
